---- MODULE Spec2Model ----
(***************************************************************************)
(* Three-phase commit over SQLite-backed participants                      *)
(* (src/3pcWithDatabases/three_phase_commit.py).                           *)
(*                                                                         *)
(* A participant is its local state, its database (the committed data,     *)
(* written as the sequence of statements applied to it), the connection    *)
(* kept open between pre_commit and the decision (_pending_connection),    *)
(* the transaction_log table of its database, and its threading.Lock.      *)
(* A fault of a backing-store call (sqlite3 raising) is an input of the    *)
(* call: each operation takes the fault it meets as a parameter.           *)
(***************************************************************************)
EXTENDS Integers, Sequences, FiniteSets, TLC

\* ------------------------------------------------------------------ bounds
MaxRoster == 3
MaxRuns == 2
MaxCalls == 5
MaxFaults == 2

\* ------------------------------------------------------------------ inputs
\* Participants and transactions are named in the order the caller first uses
\* them: pN is the N-th participant registered, tN the N-th transaction made.
Participants == {"p1", "p2", "p3"}
TxIds == {"t1", "t2"}
\* The participant called directly, without a coordinator.
OpsParticipants == {"p1"}
Rank(x) == CASE x \in {"p1", "t1"} -> 1 [] x \in {"p2", "t2"} -> 2 [] OTHER -> 3

\* A statement is a sequence of characters; " " is whitespace.
Whitespace == {" "}
QueryLists ==
  { << <<"a">>, <<"b">> >>,
    << <<"a">>, <<>> >>,
    << <<" ">> >>,
    << >> }

\* ------------------------------------------------------------------ enums
TransactionState == {"INIT", "CAN_COMMIT", "PRE_COMMIT", "COMMIT", "ABORT"}
Vote == {"YES", "NO", "ACK"}

\* The log table holds no row for a transaction before the first write.
NoRow == "NONE"
\* What a call that never returns gives back.
Blocked == "BLOCKED"
\* What do_commit and abort return.
None == "None"

\* A Transaction object not constructed yet.
NoTransaction == [queries |-> <<>>, state |-> "INIT", made |-> FALSE]

\* Transaction(transaction_id, sql_queries): state INIT.
Transaction(qs) == [queries |-> qs, state |-> "INIT", made |-> TRUE]

\* No _pending_connection attribute.
NoConn == [open |-> FALSE, tid |-> "none", data |-> <<>>]

NoFault == [kind |-> "none", at |-> 0, gc |-> FALSE]
Fault(k) == [kind |-> k, at |-> 0, gc |-> FALSE]
ExecFault(n) == [kind |-> "exec", at |-> n, gc |-> FALSE]
\* rollback() raises in abort; gc tells whether the cyclic garbage collector
\* runs inside the same call, after delattr and before the log write.
RollbackFault(g) == [kind |-> "rollback", at |-> 0, gc |-> g]

VARIABLES
  state,      \* participant -> Participant.state
  pending,    \* participant -> Participant._pending_connection
  db,         \* participant -> committed data of its database
  log,        \* participant -> (transaction id -> state in table transaction_log)
  lock,       \* participant -> whether Participant.lock is held by a call that never returns
  leaked,     \* participant -> whether a connection abort dropped without closing
              \* it is still open, holding the write lock of the database
  tx,         \* transaction id -> [queries, state] of the Transaction object
  roster,     \* Coordinator.participants
  pc,         \* where execute_transaction is
  cur,        \* the transaction execute_transaction was called with
  idx,        \* position of the running for loop in the roster
  votes,      \* local votes of execute_transaction
  acks,       \* local acks of execute_transaction
  result,     \* what execute_transaction returned
  snap,       \* db when execute_transaction was entered
  aborted,    \* roster positions abort was called on by _abort_all in this call
  runs,       \* calls of execute_transaction so far
  trace,      \* the participant calls of this execute_transaction, in order, as
              \* [op, pos, ret]: operation, roster position, return value
  met,        \* whether this execute_transaction met a fault, and a failed log write
  last,       \* the last participant call (of this execute_transaction, when one
              \* was entered): operation, participant, transaction, fault, return
  hist,       \* calls made so far, as [yes, ack]: pairs that got YES / ACK
  ncalls,     \* direct participant calls so far
  nfaults     \* faults met so far

pvars == <<state, pending, db, log, lock, leaked, tx>>
cvars == <<roster, pc, cur, idx, votes, acks, result, snap, aborted, runs, trace,
          met>>
hvars == <<last, hist, ncalls, nfaults>>
vars == <<state, pending, db, log, lock, leaked, tx, roster, pc, cur, idx, votes, acks,
          result, snap, aborted, runs, trace, met, last, hist, ncalls, nfaults>>

\* The participants' part of the state, as one value the operations map.
World == [state |-> state, pending |-> pending, db |-> db, log |-> log,
          lock |-> lock, leaked |-> leaked, tx |-> tx]

SetWorld(w) ==
  /\ state' = w.state
  /\ pending' = w.pending
  /\ db' = w.db
  /\ log' = w.log
  /\ lock' = w.lock
  /\ leaked' = w.leaked
  /\ tx' = w.tx

\* ------------------------------------------------------------------ str.strip
IsSpace(c) == c \in Whitespace

RECURSIVE LStrip(_)
LStrip(s) ==
  IF s = <<>> THEN <<>>
  ELSE IF IsSpace(Head(s)) THEN LStrip(Tail(s)) ELSE s

RECURSIVE RStrip(_)
RStrip(s) ==
  IF s = <<>> THEN <<>>
  ELSE IF IsSpace(s[Len(s)]) THEN RStrip(SubSeq(s, 1, Len(s) - 1)) ELSE s

Strip(s) == RStrip(LStrip(s))

\* `not query.strip()`
IsBlank(q) == Strip(q) = <<>>

\* ------------------------------------------------------------------ database
\* cursor.execute(query) for the first n queries, inside the open transaction.
RECURSIVE ExecuteQueries(_, _, _)
ExecuteQueries(data, queries, n) ==
  IF n = 0 THEN data
  ELSE Append(ExecuteQueries(data, queries, n - 1), queries[n])

\* BEGIN IMMEDIATE takes the write lock of the database: while a pending
\* connection, or one that was dropped without close(), holds it, another
\* connection's write ends in "database is locked".
DbLocked(w, p) == w.pending[p].open \/ w.leaked[p]

\* ------------------------------------------------------------------ Participant
\* _log_transaction: INSERT OR REPLACE of the transaction's state through a
\* connection of its own; any exception is caught and only reported.
log_transaction(w, p, t, f) ==
  IF f.kind = "log" \/ DbLocked(w, p)
  THEN w
  ELSE [w EXCEPT !.log[p][t] = w.tx[t].state]

\* The faults each operation can meet in its backing-store calls.
CanCommitFaults == {NoFault, Fault("connect"), Fault("log")}
PreCommitFaults(qs) ==
  {NoFault, Fault("connect"), Fault("begin")} \cup {ExecFault(n) : n \in 1..Len(qs)}
DoCommitFaults == {NoFault, Fault("commit"), Fault("log")}
AbortFaults == {NoFault, RollbackFault(FALSE), RollbackFault(TRUE), Fault("log")}

\* can_commit: phase 1.
can_commit(w, p, t, f) ==
  IF w.lock[p] THEN [w |-> w, ret |-> Blocked]
  ELSE IF f.kind = "connect"
  THEN [w |-> [w EXCEPT !.state[p] = "ABORT"], ret |-> "NO"]
  ELSE IF \E i \in 1..Len(w.tx[t].queries) : IsBlank(w.tx[t].queries[i])
  THEN [w |-> w, ret |-> "NO"]
  ELSE LET w1 == [w EXCEPT !.state[p] = "CAN_COMMIT", !.tx[t].state = "CAN_COMMIT"]
       IN [w |-> log_transaction(w1, p, t, f), ret |-> "YES"]

\* pre_commit that takes a call out of order for a failure and aborts locally.
pre_commit_strict(w, p, t, f) ==
  IF w.lock[p] THEN [w |-> w, ret |-> Blocked]
  ELSE IF w.state[p] # "CAN_COMMIT"
  THEN [w |-> [w EXCEPT !.state[p] = "ABORT"], ret |-> "NO"]
  ELSE IF \/ f.kind \in {"connect", "begin"}
          \/ DbLocked(w, p)
          \/ (f.kind = "exec" /\ f.at \in 1..Len(w.tx[t].queries))
  THEN [w |-> [w EXCEPT !.state[p] = "ABORT"], ret |-> "NO"]
  ELSE LET qs == w.tx[t].queries
           conn == [open |-> TRUE, tid |-> t,
                    data |-> ExecuteQueries(w.db[p], qs, Len(qs))]
       IN [w |-> [w EXCEPT !.pending[p] = conn,
                           !.state[p] = "PRE_COMMIT",
                           !.tx[t].state = "PRE_COMMIT"],
           ret |-> "ACK"]

\* pre_commit whose handler forgets the connection of a failed execute: the
\* statements applied before the fault stay in an open write.
pre_commit_no_rollback(w, p, t, f) ==
  IF w.lock[p] THEN [w |-> w, ret |-> Blocked]
  ELSE IF w.state[p] # "CAN_COMMIT"
  THEN [w |-> w, ret |-> "NO"]
  ELSE IF f.kind \in {"connect", "begin"} \/ DbLocked(w, p)
  THEN [w |-> [w EXCEPT !.state[p] = "ABORT"], ret |-> "NO"]
  ELSE IF f.kind = "exec" /\ f.at \in 1..Len(w.tx[t].queries)
  THEN LET part == [open |-> TRUE, tid |-> t,
                    data |-> ExecuteQueries(w.db[p], w.tx[t].queries, f.at - 1)]
       IN [w |-> [w EXCEPT !.pending[p] = part, !.state[p] = "ABORT"],
           ret |-> "NO"]
  ELSE LET qs == w.tx[t].queries
           conn == [open |-> TRUE, tid |-> t,
                    data |-> ExecuteQueries(w.db[p], qs, Len(qs))]
       IN [w |-> [w EXCEPT !.pending[p] = conn,
                           !.state[p] = "PRE_COMMIT",
                           !.tx[t].state = "PRE_COMMIT"],
           ret |-> "ACK"]

\* pre_commit: phase 2. The write is opened and left uncommitted.
pre_commit(w, p, t, f) ==
  IF w.lock[p] THEN [w |-> w, ret |-> Blocked]
  ELSE IF w.state[p] # "CAN_COMMIT"
  THEN [w |-> w, ret |-> "NO"]
  ELSE IF \/ f.kind \in {"connect", "begin"}
          \/ DbLocked(w, p)
          \/ (f.kind = "exec" /\ f.at \in 1..Len(w.tx[t].queries))
  THEN \* except: conn.rollback(); conn.close() when conn exists
       [w |-> [w EXCEPT !.state[p] = "ABORT"], ret |-> "NO"]
  ELSE LET qs == w.tx[t].queries
           conn == [open |-> TRUE, tid |-> t,
                    data |-> ExecuteQueries(w.db[p], qs, Len(qs))]
       IN [w |-> [w EXCEPT !.pending[p] = conn,
                           !.state[p] = "PRE_COMMIT",
                           !.tx[t].state = "PRE_COMMIT"],
           ret |-> "ACK"]

\* abort with commit() in the place of rollback().
abort_commits(w, p, t, f) ==
  IF w.lock[p] THEN [w |-> w, ret |-> Blocked]
  ELSE LET w0 == IF w.pending[p].open
                 THEN [w EXCEPT !.db[p] = w.pending[p].data]
                 ELSE w
           w1 == [w0 EXCEPT !.pending[p] = NoConn,
                            !.state[p] = "ABORT",
                            !.tx[t].state = "ABORT"]
       IN [w |-> log_transaction(w1, p, t, f), ret |-> None]

\* abort without the inner try: a rollback() that raises reaches the outer
\* handler before the state is set.
abort_rollback_escapes(w, p, t, f) ==
  IF w.lock[p] THEN [w |-> w, ret |-> Blocked]
  ELSE IF w.pending[p].open /\ f.kind = "rollback"
  THEN [w |-> [w EXCEPT !.pending[p] = NoConn], ret |-> None]
  ELSE LET w1 == [w EXCEPT !.pending[p] = NoConn,
                           !.state[p] = "ABORT",
                           !.tx[t].state = "ABORT"]
       IN [w |-> log_transaction(w1, p, t, f), ret |-> None]

\* abort without the `if hasattr(self, '_pending_connection')` block: the
\* pending connection is neither rolled back nor dropped.
abort_keeps_pending(w, p, t, f) ==
  IF w.lock[p] THEN [w |-> w, ret |-> Blocked]
  ELSE LET w1 == [w EXCEPT !.state[p] = "ABORT",
                           !.tx[t].state = "ABORT"]
       IN [w |-> log_transaction(w1, p, t, f), ret |-> None]

\* abort, entered with the lock free: rollback() and close() of the pending
\* connection leave the committed data as it is, delattr drops the attribute.
\* When rollback() raises, which is only reported, close() is skipped: the
\* dropped connection stays open with its write lock until the garbage
\* collector closes it. When the collector runs before the log write of the
\* same call the row is written and nothing stays locked; otherwise the log
\* write meets the locked database and the connection outlives the call.
abort(w, p, t, f) ==
  IF w.lock[p] THEN [w |-> w, ret |-> Blocked]
  ELSE LET w1 == [w EXCEPT !.pending[p] = NoConn,
                           !.leaked[p] = IF w.pending[p].open /\ f.kind = "rollback"
                                         THEN ~f.gc
                                         ELSE w.leaked[p],
                           !.state[p] = "ABORT",
                           !.tx[t].state = "ABORT"]
       IN [w |-> log_transaction(w1, p, t, f), ret |-> None]

\* do_commit with a reentrant lock: the handler's abort runs and do_commit returns.
do_commit_reentrant(w, p, t, f) ==
  IF w.lock[p] THEN [w |-> w, ret |-> Blocked]
  ELSE IF w.state[p] # "PRE_COMMIT"
  THEN [w |-> w, ret |-> None]
  ELSE IF w.pending[p].open /\ f.kind = "commit"
  THEN abort(w, p, t, NoFault)
  ELSE LET w1 == IF w.pending[p].open
                 THEN [w EXCEPT !.db[p] = w.pending[p].data, !.pending[p] = NoConn]
                 ELSE w
           w2 == [w1 EXCEPT !.state[p] = "COMMIT", !.tx[t].state = "COMMIT"]
       IN [w |-> log_transaction(w2, p, t, f), ret |-> None]

\* do_commit writing the log before it commits and closes the pending
\* connection: the log write meets the locked database.
do_commit_logs_first(w, p, t, f) ==
  IF w.lock[p] THEN [w |-> w, ret |-> Blocked]
  ELSE IF w.state[p] # "PRE_COMMIT"
  THEN [w |-> w, ret |-> None]
  ELSE IF w.pending[p].open /\ f.kind = "commit"
  THEN [w |-> [w EXCEPT !.lock[p] = TRUE], ret |-> Blocked]
  ELSE LET w1 == [w EXCEPT !.state[p] = "COMMIT", !.tx[t].state = "COMMIT"]
           w2 == log_transaction(w1, p, t, f)
       IN [w |-> IF w.pending[p].open
                 THEN [w2 EXCEPT !.db[p] = w.pending[p].data, !.pending[p] = NoConn]
                 ELSE w2,
           ret |-> None]

\* do_commit: phase 3. When commit() raises, the handler calls self.abort while
\* the with-block of do_commit still holds self.lock, a threading.Lock, which is
\* not reentrant: abort waits for it and the call never returns.
do_commit(w, p, t, f) ==
  IF w.lock[p] THEN [w |-> w, ret |-> Blocked]
  ELSE IF w.state[p] # "PRE_COMMIT"
  THEN [w |-> w, ret |-> None]
  ELSE IF w.pending[p].open /\ f.kind = "commit"
  THEN [w |-> [w EXCEPT !.lock[p] = TRUE], ret |-> Blocked]
  ELSE LET w1 == IF w.pending[p].open
                 THEN [w EXCEPT !.db[p] = w.pending[p].data, !.pending[p] = NoConn]
                 ELSE w
           w2 == [w1 EXCEPT !.state[p] = "COMMIT", !.tx[t].state = "COMMIT"]
       IN [w |-> log_transaction(w2, p, t, f), ret |-> None]

\* ------------------------------------------------------------------ calls
\* The record of a participant call: what was called, with which fault, what came
\* back, the local state it found and the transaction whose pending write it found
\* ("none" when it found no pending write).
Call(op, w, p, t, f, r) ==
  [op |-> op, p |-> p, t |-> t, fault |-> f.kind, ret |-> r.ret,
   pre |-> w.state[p], held |-> w.pending[p].tid]

NoCall ==
  [op |-> "none", p |-> "none", t |-> "none", fault |-> "none", ret |-> None,
   pre |-> "INIT", held |-> NoConn.tid]

Record(op, w, p, t, f, r) ==
  /\ f # NoFault => nfaults < MaxFaults
  /\ nfaults' = IF f = NoFault THEN nfaults ELSE nfaults + 1
  /\ last' = Call(op, w, p, t, f, r)
  /\ hist' = [yes |-> IF op = "can_commit" /\ r.ret = "YES"
                      THEN hist.yes \cup {<<p, t>>} ELSE hist.yes,
              ack |-> IF op = "pre_commit" /\ r.ret = "ACK"
                      THEN hist.ack \cup {<<p, t>>} ELSE hist.ack]

\* The call op(p, t) that began in w and gave r wrote the log, and the write
\* failed: by a fault of its own or on the locked database.
LogWriteFailed(op, w, p, f, r) ==
  /\ \/ op = "can_commit" /\ r.ret = "YES"
     \/ op = "do_commit" /\ r.ret = None /\ w.state[p] = "PRE_COMMIT"
     \/ op = "abort" /\ r.ret = None
  /\ f.kind = "log" \/ DbLocked(r.w, p)

\* What a call of execute_transaction has met so far: any fault, and a log
\* write that failed.
NoneMet == [any |-> FALSE, log |-> FALSE]
Met(op, w, p, f, r) ==
  [any |-> met.any \/ f # NoFault, log |-> met.log \/ LogWriteFailed(op, w, p, f, r)]

\* A run of the cyclic garbage collector closes the connection abort dropped,
\* which rolls its write back and frees the write lock. It runs when the
\* interpreter chooses.
CollectGarbage(p) ==
  /\ leaked[p]
  /\ leaked' = [leaked EXCEPT ![p] = FALSE]
  /\ UNCHANGED <<state, pending, db, log, lock, tx, cvars, hvars>>

\* ------------------------------------------------------------------ Init
Init ==
  /\ state = [p \in Participants |-> "INIT"]
  /\ pending = [p \in Participants |-> NoConn]
  /\ db = [p \in Participants |-> <<>>]
  /\ log = [p \in Participants |-> [t \in TxIds |-> NoRow]]
  /\ lock = [p \in Participants |-> FALSE]
  /\ leaked = [p \in Participants |-> FALSE]
  /\ tx = [t \in TxIds |-> NoTransaction]
  /\ roster = <<>>
  /\ pc = "idle"
  /\ cur = "none"
  /\ idx = 1
  /\ votes = <<>>
  /\ acks = <<>>
  /\ result = "none"
  /\ snap = db
  /\ aborted = {}
  /\ runs = 0
  /\ trace = <<>>
  /\ met = NoneMet
  /\ last = NoCall
  /\ hist = [yes |-> {}, ack |-> {}]
  /\ ncalls = 0
  /\ nfaults = 0

\* ------------------------------------------------------------------ Coordinator
InSeq(v, s) == \E i \in 1..Len(s) : s[i] = v

\* add_participant: an append under Coordinator.lock, a lock that
\* execute_transaction does not take.
AddParticipant(p) ==
  /\ Len(roster) < MaxRoster
  /\ \A q \in Participants : Rank(q) < Rank(p) => InSeq(q, roster)
  /\ roster' = Append(roster, p)
  /\ UNCHANGED <<pvars, pc, cur, idx, votes, acks, result, snap, aborted, runs, trace,
               met, hvars>>

\* The caller makes transaction t, unless it is made already, and enters
\* execute_transaction with it.
Begin(t, qs) ==
  /\ pc \in {"idle", "done"}
  /\ runs < MaxRuns
  /\ \A u \in TxIds : Rank(u) < Rank(t) => tx[u].made
  /\ IF tx[t].made
     THEN qs = tx[t].queries /\ tx' = tx
     ELSE tx' = [tx EXCEPT ![t] = Transaction(qs)]
  /\ pc' = "phase1"
  /\ cur' = t
  /\ idx' = 1
  /\ votes' = <<>>
  /\ acks' = <<>>
  /\ result' = "none"
  /\ snap' = db
  /\ aborted' = {}
  /\ runs' = runs + 1
  /\ trace' = <<>>
  /\ met' = NoneMet
  /\ last' = NoCall
  /\ UNCHANGED <<state, pending, db, log, lock, leaked, roster, hist, ncalls, nfaults>>

\* One turn of the phase-1 loop.
Phase1Call ==
  /\ pc = "phase1"
  /\ idx <= Len(roster)
  /\ \E f \in CanCommitFaults :
     LET r == can_commit(World, roster[idx], cur, f)
     IN /\ SetWorld(r.w)
        /\ trace' = Append(trace, [op |-> "can_commit", pos |-> idx, ret |-> r.ret])
        /\ met' = Met("can_commit", World, roster[idx], f, r)
        /\ Record("can_commit", World, roster[idx], cur, f, r)
        /\ votes' = Append(votes, r.ret)
  /\ idx' = idx + 1
  /\ UNCHANGED <<roster, pc, cur, acks, result, snap, aborted, runs, ncalls>>

\* Phase 1 going on to phase 2 whatever the votes.
Phase1Votes_Ignore(vs) == "phase2"

\* `if Vote.NO in votes`
Phase1Votes(vs) == IF InSeq("NO", vs) THEN "abort_all" ELSE "phase2"

Phase1Decide ==
  /\ pc = "phase1"
  /\ idx > Len(roster)
  /\ pc' = Phase1Votes(votes)
  /\ idx' = 1
  /\ UNCHANGED <<pvars, roster, cur, votes, acks, result, snap, aborted, runs, trace,
               met, hvars>>

\* One turn of the phase-2 loop.
Phase2Call ==
  /\ pc = "phase2"
  /\ idx <= Len(roster)
  /\ \E f \in PreCommitFaults(tx[cur].queries) :
     LET r == pre_commit(World, roster[idx], cur, f)
     IN /\ SetWorld(r.w)
        /\ trace' = Append(trace, [op |-> "pre_commit", pos |-> idx, ret |-> r.ret])
        /\ met' = Met("pre_commit", World, roster[idx], f, r)
        /\ Record("pre_commit", World, roster[idx], cur, f, r)
        /\ acks' = Append(acks, r.ret)
  /\ idx' = idx + 1
  /\ UNCHANGED <<roster, pc, cur, votes, result, snap, aborted, runs, ncalls>>

\* The phase-2 test without `or Vote.NO in acks`.
Phase2Acks_NoAckOnly(as) ==
  IF ~InSeq("ACK", as) THEN "abort_all" ELSE "phase3"

\* `if Vote.ACK not in acks or Vote.NO in acks`
Phase2Acks(as) ==
  IF ~InSeq("ACK", as) \/ InSeq("NO", as) THEN "abort_all" ELSE "phase3"

Phase2Decide ==
  /\ pc = "phase2"
  /\ idx > Len(roster)
  /\ pc' = Phase2Acks(acks)
  /\ idx' = 1
  /\ UNCHANGED <<pvars, roster, cur, votes, acks, result, snap, aborted, runs, trace,
               met, hvars>>

\* One turn of the phase-3 loop; a do_commit that never returns stops the caller.
Phase3Call ==
  /\ pc = "phase3"
  /\ idx <= Len(roster)
  /\ \E f \in DoCommitFaults :
     LET r == do_commit(World, roster[idx], cur, f)
     IN /\ SetWorld(r.w)
        /\ trace' = Append(trace, [op |-> "do_commit", pos |-> idx, ret |-> r.ret])
        /\ met' = Met("do_commit", World, roster[idx], f, r)
        /\ Record("do_commit", World, roster[idx], cur, f, r)
        /\ pc' = IF r.ret = Blocked THEN "blocked" ELSE pc
        /\ idx' = IF r.ret = Blocked THEN idx ELSE idx + 1
  /\ UNCHANGED <<roster, cur, votes, acks, result, snap, aborted, runs, ncalls>>

Phase3Return ==
  /\ pc = "phase3"
  /\ idx > Len(roster)
  /\ pc' = "done"
  /\ result' = TRUE
  /\ UNCHANGED <<pvars, roster, cur, idx, votes, acks, snap, aborted, runs, trace,
               met, hvars>>

\* _abort_all stopping one participant short.
AbortAllRange_Short(n) == 1..(n - 1)

\* The participants _abort_all calls abort on, as roster positions.
AbortAllRange(n) == 1..n

\* One turn of the loop of _abort_all.
AbortAllCall ==
  /\ pc = "abort_all"
  /\ idx \in AbortAllRange(Len(roster))
  /\ \E f \in AbortFaults :
     LET r == abort(World, roster[idx], cur, f)
     IN /\ SetWorld(r.w)
        /\ trace' = Append(trace, [op |-> "abort", pos |-> idx, ret |-> r.ret])
        /\ met' = Met("abort", World, roster[idx], f, r)
        /\ Record("abort", World, roster[idx], cur, f, r)
  /\ aborted' = aborted \cup {idx}
  /\ idx' = idx + 1
  /\ UNCHANGED <<roster, pc, cur, votes, acks, result, snap, runs, ncalls>>

\* `return False` after _abort_all
AbortAllReturn ==
  /\ pc = "abort_all"
  /\ idx \notin AbortAllRange(Len(roster))
  /\ pc' = "done"
  /\ result' = FALSE
  /\ UNCHANGED <<pvars, roster, cur, idx, votes, acks, snap, aborted, runs, trace,
               met, hvars>>

\* The caller of example.py: one thread, which registers participants and
\* runs transactions one after the other.
Next ==
  \/ pc \in {"idle", "done"} /\ \E p \in Participants : AddParticipant(p)
  \/ \E t \in TxIds, qs \in QueryLists : Begin(t, qs)
  \/ \E p \in Participants : CollectGarbage(p)
  \/ Phase1Call
  \/ Phase1Decide
  \/ Phase2Call
  \/ Phase2Decide
  \/ Phase3Call
  \/ Phase3Return
  \/ AbortAllCall
  \/ AbortAllReturn

Spec == Init /\ [][Next]_vars

\* A step of a running execute_transaction. The call runs in one thread, each
\* statement after the one before it, so a step that can be taken is taken.
ExecuteTransactionStep ==
  \/ Phase1Call
  \/ Phase1Decide
  \/ Phase2Call
  \/ Phase2Decide
  \/ Phase3Call
  \/ Phase3Return
  \/ AbortAllCall
  \/ AbortAllReturn

SpecLive == Spec /\ WF_vars(ExecuteTransactionStep)

\* A second thread that registers participants while execute_transaction
\* runs: the running loops go on over the roster as it grows.
NextThreads ==
  \/ Next
  \/ \E p \in Participants : AddParticipant(p)

SpecThreads == Init /\ [][NextThreads]_vars

\* ------------------------------------------------------------------ direct calls
\* The public operations of a participant called in any order, by a caller that
\* holds the participants and the transactions itself.
MakeTransaction(t, qs) ==
  /\ ~tx[t].made
  /\ \A u \in TxIds : Rank(u) < Rank(t) => tx[u].made
  /\ tx' = [tx EXCEPT ![t] = Transaction(qs)]
  /\ UNCHANGED <<state, pending, db, log, lock, leaked, cvars, hvars>>

\* A call made while the lock is held by a call that never returns waits forever
\* and changes nothing: only calls that get the lock are steps.
Callable(p, t) ==
  /\ ncalls < MaxCalls
  /\ tx[t].made
  /\ ~lock[p]

CallCanCommit(p, t) ==
  /\ Callable(p, t)
  /\ \E f \in CanCommitFaults :
     LET r == can_commit(World, p, t, f)
     IN SetWorld(r.w) /\ Record("can_commit", World, p, t, f, r)
  /\ ncalls' = ncalls + 1
  /\ UNCHANGED cvars

CallPreCommit(p, t) ==
  /\ Callable(p, t)
  /\ \E f \in PreCommitFaults(tx[t].queries) :
     LET r == pre_commit(World, p, t, f)
     IN SetWorld(r.w) /\ Record("pre_commit", World, p, t, f, r)
  /\ ncalls' = ncalls + 1
  /\ UNCHANGED cvars

CallDoCommit(p, t) ==
  /\ Callable(p, t)
  /\ \E f \in DoCommitFaults :
     LET r == do_commit(World, p, t, f)
     IN SetWorld(r.w) /\ Record("do_commit", World, p, t, f, r)
  /\ ncalls' = ncalls + 1
  /\ UNCHANGED cvars

CallAbort(p, t) ==
  /\ Callable(p, t)
  /\ \E f \in AbortFaults :
     LET r == abort(World, p, t, f)
     IN SetWorld(r.w) /\ Record("abort", World, p, t, f, r)
  /\ ncalls' = ncalls + 1
  /\ UNCHANGED cvars

NextOps ==
  \/ \E t \in TxIds, qs \in QueryLists : MakeTransaction(t, qs)
  \/ \E p \in OpsParticipants, t \in TxIds : CallCanCommit(p, t)
  \/ \E p \in OpsParticipants, t \in TxIds : CallPreCommit(p, t)
  \/ \E p \in OpsParticipants, t \in TxIds : CallDoCommit(p, t)
  \/ \E p \in OpsParticipants, t \in TxIds : CallAbort(p, t)
  \/ \E p \in OpsParticipants : CollectGarbage(p)

SpecOps == Init /\ [][NextOps]_vars

\* ================================================================== claims
Registered == {roster[i] : i \in 1..Len(roster)}
AllAre(v, s) == \A i \in 1..Len(s) : s[i] = v
\* execute_transaction has been entered and has not returned.
Running == pc \in {"phase1", "phase2", "phase3", "abort_all", "blocked"}

\* execute_transaction has returned and nobody was registered since.
Returned == pc = "done" /\ Len(votes) = Len(roster)

\* The data of p's store when the call began, with all statements of the
\* transaction applied.
WithStatements(p) ==
  ExecuteQueries(snap[p], tx[cur].queries, Len(tx[cur].queries))

AllVotedYes == Len(votes) = Len(roster) /\ AllAre("YES", votes)
AllAcked == Len(acks) = Len(roster) /\ AllAre("ACK", acks)

\* C1 (as claimed): when execute_transaction has returned from a call in which
\* every participant voted YES and answered ACK, it returned true, every
\* registered participant is in COMMIT, and every store holds its data at the
\* start of the call with all statements applied.
C1_UnanimousCommits ==
  (Returned /\ AllVotedYes /\ AllAcked) =>
    /\ result = TRUE
    /\ \A p \in Registered : state[p] = "COMMIT" /\ db[p] = WithStatements(p)

\* C2: when execute_transaction has returned from a call in which some phase-1
\* vote was NO, abort was called on every position of the roster, the result is
\* false, every registered participant is in ABORT, phase 2 was never entered,
\* and every store holds the data it held when the call began.
C2_Phase1NoAbortsAll ==
  (Returned /\ InSeq("NO", votes)) =>
    /\ result = FALSE
    /\ aborted = 1..Len(roster)
    /\ acks = <<>>
    /\ \A p \in Registered : state[p] = "ABORT"
    /\ db = snap

\* A call with a mixed phase-1 vote on three participants has returned.
C2_Witness ==
  /\ Returned
  /\ Len(roster) = 3
  /\ InSeq("NO", votes)
  /\ InSeq("YES", votes)
  /\ \A p \in Registered : state[p] = "ABORT"

\* C3: when execute_transaction has returned from a call in which every phase-1
\* vote was YES and some phase-2 answer was NO, the result is false, every
\* registered participant is in ABORT and holds no pending write, and every
\* store holds the data it held when the call began.
C3_Phase2NoRollsBack ==
  (Returned /\ AllVotedYes /\ InSeq("NO", acks)) =>
    /\ result = FALSE
    /\ \A p \in Registered : state[p] = "ABORT" /\ ~pending[p].open
    /\ db = snap

\* Scenario C: the third of three participants answered NO after the first two
\* had opened their writes of a transaction that has statements.
C3_Witness ==
  /\ Returned
  /\ AllVotedYes
  /\ acks = <<"ACK", "ACK", "NO">>
  /\ Cardinality(Registered) = 3
  /\ tx[cur].queries # <<>>
  /\ db = snap

\* C4: when execute_transaction has returned, the statements are applied on
\* every registered store or on none, and the roster does not hold a
\* participant in COMMIT together with one in ABORT.
C4_AllOrNothing ==
  Returned =>
    /\ \/ \A p \in Registered : db[p] = WithStatements(p)
       \/ \A p \in Registered : db[p] = snap[p]
    /\ ~(\E p, q \in Registered : state[p] = "COMMIT" /\ state[q] = "ABORT")

\* A call on several participants has returned after a fault in phase 3 (a log
\* write that failed), with the statements applied everywhere.
C4_Witness ==
  /\ Returned
  /\ result = TRUE
  /\ Cardinality(Registered) >= 2
  /\ tx[cur].queries # <<>>
  /\ last.op = "do_commit" /\ last.fault = "log"
  /\ \A p \in Registered : db[p] = WithStatements(p) /\ db[p] # snap[p]

\* C5 (as claimed): a pre_commit(t) on p that returned ACK was preceded by a
\* can_commit(t) on p that returned YES.
C5_AckOnlyAfterYes ==
  (last.op = "pre_commit" /\ last.ret = "ACK") => <<last.p, last.t>> \in hist.yes

\* C6 (as claimed): a do_commit(t) on p that finalized a pending write and moved
\* p to COMMIT finalized the write a pre_commit(t) on p had opened, and that
\* pre_commit had returned ACK.
C6_CommitOnlyOwnWrite ==
  (last.op = "do_commit" /\ last.ret = None /\ last.pre = "PRE_COMMIT"
     /\ last.held # NoConn.tid) =>
    /\ last.held = last.t
    /\ <<last.p, last.t>> \in hist.ack

\* C7 (as claimed): execute_transaction returns false exactly when some phase-1
\* vote is NO or some phase-2 answer is not ACK, and true otherwise, whatever
\* the size of the roster.
C7_ResultFromVotes ==
  Returned =>
    (result = FALSE <=>
       (InSeq("NO", votes) \/ \E i \in 1..Len(acks) : acks[i] # "ACK"))

\* C8 (as claimed): a do_commit that met a fault in commit() returned, having
\* rolled back and discarded the pending write, with the participant in ABORT
\* and ABORT in the log.
C8_CommitFaultAborts ==
  (last.op = "do_commit" /\ last.fault = "commit" /\ last.pre = "PRE_COMMIT"
     /\ last.held # NoConn.tid) =>
    /\ last.ret = None
    /\ state[last.p] = "ABORT"
    /\ ~pending[last.p].open
    /\ log[last.p][last.t] = "ABORT"

\* The step is a direct call of abort on p.
AbortStepOn(p) == ncalls' = ncalls + 1 /\ last'.op = "abort" /\ last'.p = p

\* When the last call was an abort that returned, another abort of the same
\* transaction, whatever fault it meets, gives what the one abort gave, the
\* log aside.
AbortTwiceIsOnce ==
  (last.op = "abort" /\ last.ret = None) =>
    \A g \in AbortFaults :
      LET twice == abort(World, last.p, last.t, g).w
      IN /\ twice.db = db
         /\ twice.state = state
         /\ twice.pending = pending

\* C9: an abort on a participant in ABORT leaves the data of every store as it
\* was, leaves the participant in ABORT, and leaves it without a pending write
\* (one there was not stays absent); and a second abort changes no data, state
\* or pending write.
C9_AbortIdempotent ==
  /\ []AbortTwiceIsOnce
  /\ [][\A p \in OpsParticipants :
          (AbortStepOn(p) /\ state[p] = "ABORT") =>
            /\ db' = db
            /\ state'[p] = "ABORT"
            /\ ~pending'[p].open
            /\ (~pending[p].open => pending' = pending)]_vars

\* abort has been called on a participant that was in ABORT already.
C9_Witness ==
  /\ last.op = "abort"
  /\ last.pre = "ABORT"
  /\ ncalls >= 2
  /\ state[last.p] = "ABORT"

\* The order of the transaction states: forward along INIT, CAN_COMMIT,
\* PRE_COMMIT, then COMMIT or ABORT, which are final.
StateRank(s) ==
  CASE s = "INIT" -> 0 [] s = "CAN_COMMIT" -> 1 [] s = "PRE_COMMIT" -> 2 [] OTHER -> 3
Forward(s, n) ==
  \/ n = s
  \/ (s \notin {"COMMIT", "ABORT"} /\ StateRank(n) > StateRank(s))

\* C10 (as claimed): the state of a Transaction only moves forward, and never
\* leaves ABORT.
C10_TransactionMonotonic ==
  [][\A t \in TxIds : tx[t].made => Forward(tx[t].state, tx'[t].state)]_vars

\* The step is a direct call of operation op that took the lock.
Called(op) == ncalls' = ncalls + 1 /\ last'.op = op

\* C11 (as claimed): a participant holds a pending write only while its local
\* state is PRE_COMMIT.
C11_PendingOnlyInPreCommit ==
  \A p \in Participants : pending[p].open => state[p] = "PRE_COMMIT"

\* C12 (as claimed): the pending write a call finalized, rolled back or
\* replaced was opened for the transaction the call was made for.
C12_PendingTouchedByOwnTransaction ==
  (/\ last.op \in {"pre_commit", "do_commit", "abort"}
   /\ last.held # NoConn.tid
   /\ pending[last.p] # [open |-> TRUE, tid |-> last.held,
                         data |-> pending[last.p].data]) =>
    last.held = last.t

\* C13 (as claimed): a can_commit that returned NO left the participant in
\* ABORT and the log as it was.
C13_CanCommitNoAborts ==
  [][(Called("can_commit") /\ last'.ret = "NO") =>
       (state'[last'.p] = "ABORT" /\ log' = log)]_vars

\* Every statement of t is non-empty once stripped.
WellFormed(t) == \A i \in 1..Len(tx[t].queries) : ~IsBlank(tx[t].queries[i])

\* C14 (as claimed): can_commit changes no data and opens no write; it returns
\* YES exactly when every statement is non-empty and the validation does not
\* fault; and after a YES of a call that met no fault the participant and the
\* transaction are in CAN_COMMIT and the log row of the transaction is
\* CAN_COMMIT.
C14_CanCommitEffect ==
  [][Called("can_commit") =>
       /\ db' = db
       /\ pending' = pending
       /\ (last'.ret = "YES" <=> (WellFormed(last'.t) /\ last'.fault # "connect"))
       /\ (last'.ret = "YES" /\ last'.fault = "none") =>
            /\ state'[last'.p] = "CAN_COMMIT"
            /\ tx'[last'.t].state = "CAN_COMMIT"
            /\ log'[last'.p][last'.t] = "CAN_COMMIT"]_vars

\* C15: a pre_commit on a participant that is not in CAN_COMMIT returns NO, a
\* do_commit on a participant that is not in PRE_COMMIT returns, and neither
\* changes the local state, the pending write, the transactions, the log or
\* the data.
C15_OutOfOrderCallChangesNothing ==
  [][/\ (Called("pre_commit") /\ state[last'.p] # "CAN_COMMIT") =>
          (last'.ret = "NO" /\ UNCHANGED pvars)
     /\ (Called("do_commit") /\ state[last'.p] # "PRE_COMMIT") =>
          (last'.ret = None /\ UNCHANGED pvars)]_vars

\* pre_commit was called on a participant that held a pending write in
\* PRE_COMMIT, answered NO and left the write open.
C15_Witness ==
  /\ last.op = "pre_commit"
  /\ last.pre = "PRE_COMMIT"
  /\ last.ret = "NO"
  /\ state[last.p] = "PRE_COMMIT"
  /\ pending[last.p].open

\* The pre_commit call on a participant in CAN_COMMIT meets a fault: one of its
\* store calls raises, or BEGIN IMMEDIATE finds the database locked.
PreCommitFaulted(p, t, kind) ==
  kind \in {"connect", "begin", "exec"} \/ pending[p].open \/ leaked[p]

\* C16: a pre_commit on a participant in CAN_COMMIT that meets a fault stores no
\* pending write, leaves the data as it was, moves the participant to ABORT and
\* returns NO; one that meets no fault stores the open write of its transaction
\* (the data with all statements applied) as the pending write, moves the
\* participant to PRE_COMMIT and returns ACK, and the committed data is as it was.
C16_PreCommitEffect ==
  [][(Called("pre_commit") /\ state[last'.p] = "CAN_COMMIT") =>
       IF PreCommitFaulted(last'.p, last'.t, last'.fault)
       THEN /\ last'.ret = "NO"
            /\ pending' = pending
            /\ db' = db
            /\ state'[last'.p] = "ABORT"
       ELSE /\ last'.ret = "ACK"
            /\ pending'[last'.p] =
                 [open |-> TRUE, tid |-> last'.t,
                  data |-> ExecuteQueries(db[last'.p], tx[last'.t].queries,
                                          Len(tx[last'.t].queries))]
            /\ db' = db
            /\ state'[last'.p] = "PRE_COMMIT"]_vars

\* A pre_commit failed at its second statement: NO, ABORT, nothing pending,
\* nothing committed.
C16_Witness ==
  /\ last.op = "pre_commit"
  /\ last.pre = "CAN_COMMIT"
  /\ last.fault = "exec"
  /\ Len(tx[last.t].queries) = 2
  /\ last.ret = "NO"
  /\ state[last.p] = "ABORT"
  /\ ~pending[last.p].open
  /\ db[last.p] = <<>>

\* C17: an abort that returned left the participant in ABORT without a pending
\* write and the committed data of every store as it was, whatever the local
\* state before and whether or not the rollback or the log write failed.
C17_AbortAlwaysAborts ==
  [][(Called("abort") /\ last'.ret = None) =>
       /\ state'[last'.p] = "ABORT"
       /\ ~pending'[last'.p].open
       /\ db' = db]_vars

\* abort was called on a participant that held a pending write in PRE_COMMIT,
\* and the rollback failed.
C17_Witness ==
  /\ last.op = "abort"
  /\ last.pre = "PRE_COMMIT"
  /\ last.held # NoConn.tid
  /\ last.fault = "rollback"
  /\ state[last.p] = "ABORT"
  /\ ~pending[last.p].open

\* The step is a call on p that reaches the log write of _log_transaction:
\* a can_commit that returns YES, a do_commit entered in PRE_COMMIT that
\* returns, or an abort that returns.
WritesLog(p) ==
  /\ ncalls' = ncalls + 1
  /\ last'.p = p
  /\ \/ last'.op = "can_commit" /\ last'.ret = "YES"
     \/ last'.op = "do_commit" /\ last'.ret = None /\ last'.pre = "PRE_COMMIT"
     \/ last'.op = "abort" /\ last'.ret = None

\* C18 (as claimed): a call writes the log only when the participant holds no
\* open write on its database, neither as its pending connection nor as a
\* connection it dropped without rolling it back (the log write is the last
\* statement of the call, so it meets the connections the call leaves); a
\* pre_commit leaves every log as it was; and no log row is PRE_COMMIT or
\* INIT.
C18_NoLogWhilePending ==
  /\ [](\A p \in Participants, t \in TxIds : log[p][t] \notin {"PRE_COMMIT", "INIT"})
  /\ [][/\ \A p \in Participants :
             WritesLog(p) => (~pending'[p].open /\ ~leaked'[p])
        /\ Called("pre_commit") => log' = log]_vars

\* The calls of one operation made by this execute_transaction, in order.
CallsOf(op) == SelectSeq(trace, LAMBDA c : c.op = op)

\* Every participant has been called with op before the i-th call of this
\* execute_transaction and every one of those calls returned v.
AllAnswered(op, v, i) ==
  LET before == {j \in 1..(i - 1) : trace[j].op = op}
  IN /\ Cardinality(before) = Len(roster)
     /\ \A j \in before : trace[j].ret = v

\* C19: within one execute_transaction the calls of each operation go through
\* the roster in order, one call per participant; a pre_commit is made only
\* after every participant has answered can_commit with YES, and a do_commit
\* only after every participant has answered pre_commit with ACK.
C19_CallsOrdered ==
  (Running \/ Returned) =>
  /\ \A op \in {"can_commit", "pre_commit", "do_commit", "abort"} :
       /\ Len(CallsOf(op)) <= Len(roster)
       /\ \A k \in 1..Len(CallsOf(op)) : CallsOf(op)[k].pos = k
  /\ \A i \in 1..Len(trace) :
       /\ trace[i].op = "pre_commit" => AllAnswered("can_commit", "YES", i)
       /\ trace[i].op = "do_commit" => AllAnswered("pre_commit", "ACK", i)

\* execute_transaction has returned true with three participants: nine calls,
\* three of each phase, the last one a do_commit on the third participant.
C19_Witness ==
  /\ Returned
  /\ result = TRUE
  /\ Len(roster) = 3
  /\ Len(trace) = 9
  /\ trace[9].op = "do_commit" /\ trace[9].pos = 3 /\ trace[9].ret = None

\* C20 (as claimed): when the last call of execute_transaction is a do_commit of
\* phase 3 that met a fault in commit(), that participant is in ABORT; each
\* participant called before it in phase 3 is in COMMIT with the statements
\* applied, or in ABORT with its data untouched after a fault of its own;
\* execute_transaction goes on (it is in the phase-3 loop or has returned true)
\* and _abort_all has called nobody.
C20_Phase3FaultLocal ==
  (/\ trace # <<>>
   /\ trace[Len(trace)].op = "do_commit"
   /\ last.op = "do_commit" /\ last.fault = "commit" /\ last.pre = "PRE_COMMIT"
   /\ last.held # NoConn.tid) =>
    /\ state[last.p] = "ABORT"
    /\ \A c \in {trace[i] : i \in 1..(Len(trace) - 1)} :
         c.op = "do_commit" =>
           \/ /\ state[roster[c.pos]] = "COMMIT"
              /\ db[roster[c.pos]] = WithStatements(roster[c.pos])
           \/ /\ state[roster[c.pos]] = "ABORT"
              /\ db[roster[c.pos]] = snap[roster[c.pos]]
    /\ pc \in {"phase3", "done"}
    /\ Returned => result = TRUE
    /\ aborted = {}

\* C21 (as claimed): no participant's lock stays held by a call that does not
\* return, and every execute_transaction that was entered returns with a
\* boolean result.
C21_EveryCallReturns ==
  /\ [](\A p \in Participants : ~lock[p])
  /\ [](Running => <>(Returned /\ result \in BOOLEAN))

\* C22: when execute_transaction has returned, no registered participant holds
\* a pending write; after true every registered participant is in COMMIT, and
\* after false every one is in ABORT with the data its store held when the
\* call was entered.
C22_TerminalAfterReturn ==
  Returned =>
    \A p \in Registered :
      /\ ~pending[p].open
      /\ result = TRUE => state[p] = "COMMIT"
      /\ result = FALSE => (state[p] = "ABORT" /\ db[p] = snap[p])

\* A second call on three participants that committed in the first has returned
\* false after a pre_commit failed on the last one: the writes the first two
\* held were rolled back.
C22_Witness ==
  /\ Returned
  /\ result = FALSE
  /\ runs = 2
  /\ Len(roster) = 3
  /\ acks = <<"ACK", "ACK", "NO">>
  /\ \A p \in Registered : db[p] = snap[p] /\ db[p] # <<>>

\* The running or returned execute_transaction met no fault.
NoFaults == ~met.any

\* No participant is registered twice.
DistinctRoster == Cardinality(Registered) = Len(roster)

\* C23 (as claimed): a second execute_transaction on a roster of distinct
\* participants, after a first that returned, with a transaction made for it
\* whose statements are valid and without a fault, returns true with every
\* registered participant in COMMIT and every store holding its data at entry
\* followed by the statements of the new transaction.
C23_ReusableAfterReturn ==
  (/\ Returned
   /\ runs = 2
   /\ roster # <<>>
   /\ DistinctRoster
   /\ cur = "t2"
   /\ WellFormed(cur)
   /\ NoFaults) =>
    /\ result = TRUE
    /\ \A p \in Registered : state[p] = "COMMIT" /\ db[p] = WithStatements(p)

\* The last call of the running execute_transaction is a pre_commit on a
\* participant that stands earlier in the roster too.
RepeatedPreCommit ==
  /\ trace # <<>>
  /\ trace[Len(trace)].op = "pre_commit"
  /\ \E i \in 1..(trace[Len(trace)].pos - 1) : roster[i] = roster[trace[Len(trace)].pos]

\* C24 (as claimed): with a participant registered twice, an
\* execute_transaction with valid statements and without a fault does not
\* commit: every pre_commit on a participant that was called earlier in phase 2
\* finds it in PRE_COMMIT and returns NO, and when the call has returned it
\* returned false with every registered participant in ABORT, without a
\* pending write, its data as at entry.
C24_DuplicateCannotCommit ==
  (/\ pc # "idle"
   /\ ~DistinctRoster
   /\ WellFormed(cur)
   /\ NoFaults) =>
    /\ RepeatedPreCommit => (last.pre = "PRE_COMMIT" /\ last.ret = "NO")
    /\ Returned =>
         /\ result = FALSE
         /\ \A p \in Registered :
              state[p] = "ABORT" /\ ~pending[p].open /\ db[p] = snap[p]

\* No log write of the running or returned execute_transaction failed.
NoLogFault == ~met.log

\* C25: when execute_transaction has returned and none of its log writes
\* failed, the log row of its transaction equals the local state on every
\* registered participant, COMMIT after true and ABORT after false; and no log
\* row is ever INIT or PRE_COMMIT.
C25_LogIsFinalState ==
  /\ \A p \in Participants, t \in TxIds : log[p][t] \notin {"INIT", "PRE_COMMIT"}
  /\ (Returned /\ NoLogFault) =>
       \A p \in Registered :
         /\ log[p][cur] = state[p]
         /\ log[p][cur] = IF result = TRUE THEN "COMMIT" ELSE "ABORT"

\* Two calls have returned on two participants, the first aborted after a
\* pre_commit failed and the second committed: each log holds ABORT for the
\* first transaction and COMMIT for the second.
C25_Witness ==
  /\ Returned
  /\ NoLogFault
  /\ Len(roster) = 2
  /\ cur = "t2"
  /\ result = TRUE
  /\ nfaults > 0
  /\ \A p \in Registered :
       log[p]["t1"] = "ABORT" /\ log[p]["t2"] = "COMMIT" /\ state[p] = "COMMIT"

====
